---- MODULE Spec2Model ----
(***************************************************************************)
(* Rebleeding-risk Streamlit script (src/st.py).                           *)
(*                                                                         *)
(* One process serves a sequence of script runs.  A run executes the       *)
(* script top to bottom: load_model() (behind st.cache_resource), the      *)
(* form, and - when the form was submitted - predict_rebleeding() followed *)
(* by the risk-band classification and the rendering of the result.        *)
(*                                                                         *)
(* Probabilities are integers in hundredths (1.0 = 100); form floats are   *)
(* integers in tenths (step=0.1).                                          *)
(***************************************************************************)
EXTENDS Integers, FiniteSets, Sequences, TLC

VARIABLES
    cache,          \* st.cache_resource entry of load_model: "empty" | "model" | "None"
    fileReads,      \* executions of model.load_model("catboost_model.cbm") in the process
    loadsOK,        \* of these, how many deserialized the file
    loadFailures,   \* of these, how many raised
    runs,           \* script runs started
    formShown,      \* the browser shows the form of the last run
    pc,             \* position of the running script
    submitted,      \* st.form_submit_button(...) of this run
    args,           \* the nine values handed to predict_rebleeding
    model,          \* module global `model` (line 31): "unset" | "model" | "None"
    runFileReads,   \* file reads of this run
    data,           \* the DataFrame built by predict_rebleeding
    raw,            \* model.predict_proba(data)[0][1]
    raisedAt,       \* step of predict_rebleeding that raised: "none" | "coerce" | "proba"
    prob,           \* value returned by predict_rebleeding (script global `prob`)
    errors,         \* st.error boxes of this run
    predictCalls,   \* calls of model.predict_proba in this run / invocation
    invokerCalls,   \* calls of predict_rebleeding in this run
    prob_percent,   \* line 166
    risk_level,     \* lines 169-180
    color,
    icon,
    rendered,       \* what lines 182-194 put on the page
    calls,          \* direct invocations of predict_rebleeding (invoker specification)
    probe           \* one remembered invocation: its arguments, model outcome and result

vars == <<cache, fileReads, loadsOK, loadFailures, runs, formShown, pc, submitted,
          args, model, runFileReads, data, raw, raisedAt, prob, errors, predictCalls,
          invokerCalls, prob_percent, risk_level, color, icon, rendered, calls, probe>>

----------------------------------------------------------------------------
(* Bounds *)
MaxRuns == 3        \* script runs in one behaviour
MaxCalls == 3       \* direct invocations in one behaviour of the invoker specification
Overshoot == 2      \* how far outside [0,1] a raw model score may fall, in hundredths

(* Program constants, in hundredths *)
Zero == 0           \* 0.0 of the clamp
One == 100          \* 1.0 of the clamp
LowCut == 40        \* prob < 0.4
HighCut == 70       \* prob < 0.7
Fallback == 50      \* return 0.5

----------------------------------------------------------------------------
(* Python values *)
I(n) == [t |-> "int", v |-> n]          \* an int
F(tenths) == [t |-> "float", v |-> tenths]  \* a float, in tenths
Bad == [t |-> "bad", v |-> 0]           \* None or a non-numeric string

Num(n) == [kind |-> "num", v |-> n]     \* a float score, in hundredths
NaN == [kind |-> "nan", v |-> 0]
Raise == [kind |-> "raise", v |-> 0]    \* the call raises instead of returning
NoValue == [kind |-> "none", v |-> 0]   \* not assigned yet

\* int(x): truncates a float toward zero, raises on None / non-numeric text
CanCoerce(x) == x.t # "bad"
PyInt(x) == IF x.t = "int" THEN x.v
            ELSE IF x.v >= 0 THEN x.v \div 10 ELSE -((-x.v) \div 10)
\* float(x), in tenths
PyFloat(x) == IF x.t = "int" THEN x.v * 10 ELSE x.v

\* a < b on floats: False whenever either side is NaN
Lt(a, b) == a.kind = "num" /\ b.kind = "num" /\ a.v < b.v
\* min(a, b) and max(a, b): the first argument stays unless the second beats it
PyMin(a, b) == IF Lt(b, a) THEN b ELSE a
PyMax(a, b) == IF Lt(a, b) THEN b ELSE a

\* round(prob * 100, 1), in tenths of a percent
Round1(p) == IF p.kind = "num" THEN Num((p.v * 1000) \div One) ELSE p
\* f"{prob_percent}%": digits before and after the decimal point
PercentText(pp) == IF pp.kind = "num" THEN <<pp.v \div 10, pp.v % 10>> ELSE <<-1, -1>>

----------------------------------------------------------------------------
(* The form *)
MethodOptions == 1..5
LocationOptions == 1..9
DescendingOptions == {0, 1}
NumericProfiles == {"min_value", "value", "max_value"}

Pick(profile, lo, dflt, hi) ==
    CASE profile = "min_value" -> lo
      [] profile = "value" -> dflt
      [] profile = "max_value" -> hi

\* the six st.number_input widgets at their minimum, default or maximum
NumberInputs(profile) ==
    [creatinine |-> F(Pick(profile, 0, 800, 20000)),
     bun        |-> F(Pick(profile, 0, 100, 1000)),
     pt         |-> F(Pick(profile, 0, 130, 600)),
     aptt       |-> F(Pick(profile, 0, 300, 2000)),
     rockall    |-> I(Pick(profile, 0, 9, 12)),
     aims65     |-> I(Pick(profile, 0, 3, 5))]

FormValues(m, l, d, profile) ==
    LET n == NumberInputs(profile) IN
    [method |-> I(m), location |-> I(l), descending |-> I(d),
     creatinine |-> n.creatinine, bun |-> n.bun, pt |-> n.pt, aptt |-> n.aptt,
     rockall |-> n.rockall, aims65 |-> n.aims65]

\* widget state of a session before any submission
DefaultValues == FormValues(1, 1, 0, "value")

\* submissions explored: every combination of the three categorical widgets with
\* the numeric widgets at their defaults, and the numeric extremes with the
\* categorical widgets at their defaults
FormInputs ==
    {<<m, l, d, "value">> : m \in MethodOptions, l \in LocationOptions,
                            d \in DescendingOptions}
    \cup {<<1, 1, 0, profile>> : profile \in NumericProfiles}

----------------------------------------------------------------------------
(* The DataFrame *)
Columns == {"Method", "Location", "Descending", "Creatinine", "BUN", "PT", "APTT",
            "Rockall", "AIMS65"}
CategoricalColumns == {"Method", "Location", "Descending"}

NoData == [built |-> FALSE,
           val |-> [c \in Columns |-> 0],
           dtype |-> [c \in Columns |-> "none"]]

Coercible(a) ==
    /\ CanCoerce(a.method) /\ CanCoerce(a.location) /\ CanCoerce(a.descending)
    /\ CanCoerce(a.creatinine) /\ CanCoerce(a.bun) /\ CanCoerce(a.pt)
    /\ CanCoerce(a.aptt) /\ CanCoerce(a.rockall) /\ CanCoerce(a.aims65)

\* pd.DataFrame({...}) of lines 38-48
Frame(a) ==
    [built |-> TRUE,
     val |-> [c \in Columns |->
                CASE c = "Method" -> PyInt(a.method)
                  [] c = "Location" -> PyInt(a.location)
                  [] c = "Descending" -> PyInt(a.descending)
                  [] c = "Creatinine" -> PyFloat(a.creatinine)
                  [] c = "BUN" -> PyFloat(a.bun)
                  [] c = "PT" -> PyFloat(a.pt)
                  [] c = "APTT" -> PyFloat(a.aptt)
                  [] c = "Rockall" -> PyInt(a.rockall)
                  [] c = "AIMS65" -> PyInt(a.aims65)],
     dtype |-> [c \in Columns |->
                IF c \in {"Creatinine", "BUN", "PT", "APTT"} THEN "float64" ELSE "int64"]]

\* data[c] = data[c].astype('category')
AsCategory(d, c) == [d EXCEPT !.dtype[c] = "category"]

----------------------------------------------------------------------------
(* The model's answers *)
Scores == {Num(n) : n \in (Zero - Overshoot)..(One + Overshoot)} \cup {NaN}
Outcomes == Scores \cup {Raise}

----------------------------------------------------------------------------
(* Risk bands, lines 169-180 and 189-194 *)
\* the cut points taken inclusively (<= for <)
RiskLevelInclusive(p) ==
    IF p.kind = "num" /\ p.v <= LowCut THEN "Low Risk"
    ELSE IF p.kind = "num" /\ p.v <= HighCut THEN "Moderate Risk"
    ELSE "High Risk"

RiskLevel(p) == IF Lt(p, Num(LowCut)) THEN "Low Risk"
                ELSE IF Lt(p, Num(HighCut)) THEN "Moderate Risk"
                ELSE "High Risk"
Color(p) == IF Lt(p, Num(LowCut)) THEN "green"
            ELSE IF Lt(p, Num(HighCut)) THEN "orange"
            ELSE "red"
Icon(p) == IF Lt(p, Num(LowCut)) THEN "check"
           ELSE IF Lt(p, Num(HighCut)) THEN "warning"
           ELSE "siren"
\* the second branch tests a label that is never assigned
RecommendationMislabelled(level) ==
    IF level = "Low Risk"
    THEN "Low short-term rebleeding risk. Routine monitoring may be sufficient."
    ELSE IF level = "Medium Risk"
    THEN "Consider close observation and evaluate need for intensified therapy."
    ELSE "High-risk patient! Consider blood transfusion, ICU admission, or early repeat endoscopy."

Recommendation(level) ==
    IF level = "Low Risk"
    THEN "Low short-term rebleeding risk. Routine monitoring may be sufficient."
    ELSE IF level = "Moderate Risk"
    THEN "Consider close observation and evaluate need for intensified therapy."
    ELSE "High-risk patient! Consider blood transfusion, ICU admission, or early repeat endoscopy."

NoRender == [shown |-> FALSE, level |-> "", color |-> "", percent |-> <<-1, -1>>,
             progress |-> NoValue, recommendation |-> ""]

NoProbe == [set |-> FALSE, args |-> DefaultValues, data |-> NoData,
            outcome |-> NoValue, prob |-> NoValue, between |-> FALSE]

----------------------------------------------------------------------------
(* Initial state: the server process is up, no script has run *)
Init ==
    /\ cache = "empty"
    /\ fileReads = 0 /\ loadsOK = 0 /\ loadFailures = 0
    /\ runs = 0
    /\ formShown = FALSE
    /\ pc = "idle"
    /\ submitted = FALSE
    /\ args = DefaultValues
    /\ model = "unset"
    /\ runFileReads = 0
    /\ data = NoData
    /\ raw = NoValue
    /\ raisedAt = "none"
    /\ prob = NoValue
    /\ errors = {}
    /\ predictCalls = 0 /\ invokerCalls = 0
    /\ prob_percent = NoValue
    /\ risk_level = "" /\ color = "" /\ icon = ""
    /\ rendered = NoRender
    /\ calls = 0
    /\ probe = NoProbe

BetweenRuns == pc \in {"idle", "done", "stopped"}

\* a script run starts with fresh module globals and an empty page
FreshRun ==
    /\ runs' = runs + 1
    /\ pc' = "load"
    /\ model' = "unset"
    /\ runFileReads' = 0
    /\ data' = NoData
    /\ raw' = NoValue
    /\ raisedAt' = "none"
    /\ prob' = NoValue
    /\ errors' = {}
    /\ predictCalls' = 0 /\ invokerCalls' = 0
    /\ prob_percent' = NoValue
    /\ risk_level' = "" /\ color' = "" /\ icon' = ""
    /\ rendered' = NoRender
    /\ UNCHANGED <<cache, fileReads, loadsOK, loadFailures, formShown, calls, probe>>

\* a run that no submission caused: the page is opened or reloaded
OpenPage ==
    /\ BetweenRuns
    /\ runs < MaxRuns
    /\ submitted' = FALSE
    /\ args' = args
    /\ FreshRun

\* the user presses the form's submit button; the widgets deliver their values
Submit(m, l, d, profile) ==
    /\ BetweenRuns
    /\ runs < MaxRuns
    /\ formShown
    /\ submitted' = TRUE
    /\ args' = FormValues(m, l, d, profile)
    /\ FreshRun

----------------------------------------------------------------------------
(* load_model behind st.cache_resource, and `model = load_model()` *)

\* the cache holds the function's value: the body does not run
LoadModelCached ==
    /\ pc = "load"
    /\ cache # "empty"
    /\ model' = cache
    /\ pc' = "form"
    /\ UNCHANGED <<cache, fileReads, loadsOK, loadFailures, runs, formShown, submitted,
                   args, runFileReads, data, raw, raisedAt, prob, errors, predictCalls,
                   invokerCalls, prob_percent, risk_level, color, icon, rendered, calls,
                   probe>>

\* load_model without the cache decorator: the handle is returned, not kept
LoadModelReadUncached ==
    /\ pc = "load"
    /\ cache = "empty"
    /\ fileReads' = fileReads + 1
    /\ runFileReads' = runFileReads + 1
    /\ loadsOK' = loadsOK + 1
    /\ model' = "model"
    /\ pc' = "form"
    /\ UNCHANGED <<cache, loadFailures, runs, formShown, submitted, args, data, raw,
                   raisedAt, prob, errors, predictCalls, invokerCalls, prob_percent,
                   risk_level, color, icon, rendered, calls, probe>>

\* the body runs, the file deserializes, the handle is returned and cached
LoadModelRead ==
    /\ pc = "load"
    /\ cache = "empty"
    /\ fileReads' = fileReads + 1
    /\ runFileReads' = runFileReads + 1
    /\ loadsOK' = loadsOK + 1
    /\ cache' = "model"
    /\ model' = "model"
    /\ pc' = "form"
    /\ UNCHANGED <<loadFailures, runs, formShown, submitted, args, data, raw, raisedAt,
                   prob, errors, predictCalls, invokerCalls, prob_percent, risk_level,
                   color, icon, rendered, calls, probe>>

\* the except branch without st.stop(): load_model returns None, which is cached,
\* and the script goes on
LoadModelFailContinues ==
    /\ pc = "load"
    /\ cache = "empty"
    /\ fileReads' = fileReads + 1
    /\ runFileReads' = runFileReads + 1
    /\ loadFailures' = loadFailures + 1
    /\ errors' = errors \cup {"Model loading failed"}
    /\ cache' = "None"
    /\ model' = "None"
    /\ pc' = "form"
    /\ UNCHANGED <<loadsOK, runs, formShown, submitted, args, data, raw, raisedAt, prob,
                   predictCalls, invokerCalls, prob_percent, risk_level, color, icon,
                   rendered, calls, probe>>

\* the body runs, load_model raises: st.error, then st.stop() ends the script run;
\* nothing is returned, so nothing is cached
LoadModelFail ==
    /\ pc = "load"
    /\ cache = "empty"
    /\ fileReads' = fileReads + 1
    /\ runFileReads' = runFileReads + 1
    /\ loadFailures' = loadFailures + 1
    /\ errors' = errors \cup {"Model loading failed"}
    /\ formShown' = FALSE
    /\ pc' = "stopped"
    /\ UNCHANGED <<cache, loadsOK, runs, submitted, args, model, data, raw, raisedAt,
                   prob, predictCalls, invokerCalls, prob_percent, risk_level, color,
                   icon, rendered, calls, probe>>

----------------------------------------------------------------------------
(* Title, form and the `if submitted:` test *)
\* the result section outside the `if submitted:` test
RenderFormAlwaysPredicts ==
    /\ pc = "form"
    /\ formShown' = TRUE
    /\ pc' = "invoke"
    /\ UNCHANGED <<cache, fileReads, loadsOK, loadFailures, runs, submitted, args, model,
                   runFileReads, data, raw, raisedAt, prob, errors, predictCalls,
                   invokerCalls, prob_percent, risk_level, color, icon, rendered, calls,
                   probe>>

RenderForm ==
    /\ pc = "form"
    /\ formShown' = TRUE
    /\ pc' = IF submitted THEN "invoke" ELSE "disclaimer"
    /\ UNCHANGED <<cache, fileReads, loadsOK, loadFailures, runs, submitted, args, model,
                   runFileReads, data, raw, raisedAt, prob, errors, predictCalls,
                   invokerCalls, prob_percent, risk_level, color, icon, rendered, calls,
                   probe>>

\* line 165: prob = predict_rebleeding(method, ..., aims65)
CallPredict ==
    /\ pc = "invoke"
    /\ invokerCalls' = invokerCalls + 1
    /\ pc' = "build"
    /\ UNCHANGED <<cache, fileReads, loadsOK, loadFailures, runs, formShown, submitted,
                   args, model, runFileReads, data, raw, raisedAt, prob, errors,
                   predictCalls, prob_percent, risk_level, color, icon, rendered, calls,
                   probe>>

----------------------------------------------------------------------------
(* predict_rebleeding *)
InvokerFrame == <<cache, fileReads, loadsOK, loadFailures, runs, formShown, submitted,
                  args, model, runFileReads, invokerCalls, prob_percent, risk_level,
                  color, icon, rendered, calls, probe>>

\* lines 38-48: coerce the nine values and build the one-row frame
BuildRecord ==
    /\ pc = "build"
    /\ IF Coercible(args)
       THEN /\ data' = Frame(args)
            /\ pc' = "tagMethod"
            /\ UNCHANGED raisedAt
       ELSE /\ raisedAt' = "coerce"
            /\ pc' = "except"
            /\ UNCHANGED data
    /\ UNCHANGED <<raw, prob, errors, predictCalls>>
    /\ UNCHANGED InvokerFrame

Tag(here, column, next) ==
    /\ pc = here
    /\ data' = AsCategory(data, column)
    /\ pc' = next
    /\ UNCHANGED <<raw, raisedAt, prob, errors, predictCalls>>
    /\ UNCHANGED InvokerFrame

TagMethod == Tag("tagMethod", "Method", "tagLocation")          \* line 51

\* line 52 left out: Location stays an int64 column
TagLocationMissing ==
    /\ pc = "tagLocation"
    /\ pc' = "tagDescending"
    /\ UNCHANGED <<data, raw, raisedAt, prob, errors, predictCalls>>
    /\ UNCHANGED InvokerFrame

TagLocation == Tag("tagLocation", "Location", "tagDescending")  \* line 52
TagDescending == Tag("tagDescending", "Descending", "proba")    \* line 53

\* the call leaves the shared handle unusable for the next caller
PredictProbaSpoilsModel(o) ==
    /\ pc = "proba"
    /\ predictCalls' = predictCalls + 1
    /\ IF model # "model" \/ o = Raise
       THEN /\ raisedAt' = "proba"
            /\ pc' = "except"
            /\ UNCHANGED raw
       ELSE /\ raw' = o
            /\ pc' = "clamp"
            /\ UNCHANGED raisedAt
    /\ model' = "None"
    /\ UNCHANGED <<data, prob, errors>>
    /\ UNCHANGED <<cache, fileReads, loadsOK, loadFailures, runs, formShown, submitted,
                   args, runFileReads, invokerCalls, prob_percent, risk_level, color,
                   icon, rendered, calls, probe>>

\* line 56: model.predict_proba(data)[0][1]; None has no predict_proba
PredictProba(o) ==
    /\ pc = "proba"
    /\ predictCalls' = predictCalls + 1
    /\ IF model # "model" \/ o = Raise
       THEN /\ raisedAt' = "proba"
            /\ pc' = "except"
            /\ UNCHANGED raw
       ELSE /\ raw' = o
            /\ pc' = "clamp"
            /\ UNCHANGED raisedAt
    /\ UNCHANGED <<data, prob, errors>>
    /\ UNCHANGED InvokerFrame

\* only the lower side is clamped: return max(0.0, prob)
ClampLowerOnly ==
    /\ pc = "clamp"
    /\ prob' = PyMax(Num(Zero), raw)
    /\ pc' = "returned"
    /\ UNCHANGED <<data, raw, raisedAt, errors, predictCalls>>
    /\ UNCHANGED InvokerFrame

\* line 57: return max(0.0, min(1.0, prob))
Clamp ==
    /\ pc = "clamp"
    /\ prob' = PyMax(Num(Zero), PyMin(Num(One), raw))
    /\ pc' = "returned"
    /\ UNCHANGED <<data, raw, raisedAt, errors, predictCalls>>
    /\ UNCHANGED InvokerFrame

\* the handler falls back without telling the user
ExceptSilent ==
    /\ pc = "except"
    /\ prob' = Num(Fallback)
    /\ pc' = "returned"
    /\ UNCHANGED <<data, raw, raisedAt, errors, predictCalls>>
    /\ UNCHANGED InvokerFrame

\* the handler calls the model a second time before giving up
ExceptRetries ==
    /\ pc = "except"
    /\ IF raisedAt = "proba" /\ predictCalls < 2
       THEN /\ pc' = "proba"
            /\ UNCHANGED <<errors, prob>>
       ELSE /\ errors' = errors \cup {"Error during prediction"}
            /\ prob' = Num(Fallback)
            /\ pc' = "returned"
    /\ UNCHANGED <<data, raw, raisedAt, predictCalls>>
    /\ UNCHANGED InvokerFrame

\* lines 59-61: except Exception: st.error(...); return 0.5
Except ==
    /\ pc = "except"
    /\ errors' = errors \cup {"Error during prediction"}
    /\ prob' = Num(Fallback)
    /\ pc' = "returned"
    /\ UNCHANGED <<data, raw, raisedAt, predictCalls>>
    /\ UNCHANGED InvokerFrame

----------------------------------------------------------------------------
(* Display of the result, lines 166-194, and the disclaimer *)
Classify ==
    /\ pc = "returned"
    /\ prob_percent' = Round1(prob)
    /\ risk_level' = RiskLevel(prob)
    /\ color' = Color(prob)
    /\ icon' = Icon(prob)
    /\ pc' = "render"
    /\ UNCHANGED <<cache, fileReads, loadsOK, loadFailures, runs, formShown, submitted,
                   args, model, runFileReads, data, raw, raisedAt, prob, errors,
                   predictCalls, invokerCalls, rendered, calls, probe>>

Render ==
    /\ pc = "render"
    /\ rendered' = [shown |-> TRUE, level |-> risk_level, color |-> color,
                    percent |-> PercentText(prob_percent), progress |-> prob,
                    recommendation |-> Recommendation(risk_level)]
    /\ pc' = "disclaimer"
    /\ UNCHANGED <<cache, fileReads, loadsOK, loadFailures, runs, formShown, submitted,
                   args, model, runFileReads, data, raw, raisedAt, prob, errors,
                   predictCalls, invokerCalls, prob_percent, risk_level, color, icon,
                   calls, probe>>

Disclaimer ==
    /\ pc = "disclaimer"
    /\ pc' = "done"
    /\ UNCHANGED <<cache, fileReads, loadsOK, loadFailures, runs, formShown, submitted,
                   args, model, runFileReads, data, raw, raisedAt, prob, errors,
                   predictCalls, invokerCalls, prob_percent, risk_level, color, icon,
                   rendered, calls, probe>>

----------------------------------------------------------------------------
Next ==
    \/ OpenPage
    \/ \E w \in FormInputs : Submit(w[1], w[2], w[3], w[4])
    \/ LoadModelCached
    \/ LoadModelRead
    \/ LoadModelFail
    \/ RenderForm
    \/ CallPredict
    \/ BuildRecord
    \/ TagMethod
    \/ TagLocation
    \/ TagDescending
    \/ \E o \in Outcomes : PredictProba(o)
    \/ Clamp
    \/ Except
    \/ Classify
    \/ Render
    \/ Disclaimer

Spec == Init /\ [][Next]_vars

TypeOK ==
    /\ cache \in {"empty", "model", "None"}
    /\ pc \in {"idle", "load", "form", "invoke", "build", "tagMethod", "tagLocation",
               "tagDescending", "proba", "clamp", "except", "returned", "render",
               "disclaimer", "done", "stopped"}
    /\ runs \in 0..MaxRuns
    /\ prob.kind \in {"none", "num", "nan"}

----------------------------------------------------------------------------
(* predict_rebleeding called directly, on a loaded model, with arbitrary values *)

RawMethods == {I(1), I(6), F(27), Bad}          \* 1, 6, 2.7, "abc"
RawCreatinines == {F(800), I(80), Bad}          \* 80.0, 80, None
RawAims65s == {I(3), Bad}                       \* 3, None
RawArgs == {[DefaultValues EXCEPT !.method = m, !.creatinine = c, !.aims65 = a] :
               m \in RawMethods, c \in RawCreatinines, a \in RawAims65s}

\* answers of the model explored by the invoker specification
SampleOutcomes == {Num(Zero - Overshoot), Num(Zero), Num(LowCut), Num(One),
                   Num(One + Overshoot), NaN, Raise}

InitInvoker ==
    /\ cache = "model"
    /\ fileReads = 1 /\ loadsOK = 1 /\ loadFailures = 0
    /\ runs = 1
    /\ formShown = TRUE
    /\ pc = "idle"
    /\ submitted = FALSE
    /\ args = DefaultValues
    /\ model = "model"
    /\ runFileReads = 1
    /\ data = NoData
    /\ raw = NoValue
    /\ raisedAt = "none"
    /\ prob = NoValue
    /\ errors = {}
    /\ predictCalls = 0 /\ invokerCalls = 0
    /\ prob_percent = NoValue
    /\ risk_level = "" /\ color = "" /\ icon = ""
    /\ rendered = NoRender
    /\ calls = 0
    /\ probe = NoProbe

\* line 36: a call binds the nine parameters; locals start unbound
DirectCall(a) ==
    /\ pc = "idle"
    /\ calls < MaxCalls
    /\ calls' = calls + 1
    /\ args' = a
    /\ data' = NoData
    /\ raw' = NoValue
    /\ raisedAt' = "none"
    /\ prob' = NoValue
    /\ errors' = {}
    /\ predictCalls' = 0
    /\ invokerCalls' = 1
    /\ pc' = "build"
    /\ UNCHANGED <<cache, fileReads, loadsOK, loadFailures, runs, formShown, submitted,
                   model, runFileReads, prob_percent, risk_level, color, icon, rendered,
                   probe>>

\* what the model did in the invocation that just returned
Outcome == IF raisedAt = "proba" THEN Raise
           ELSE IF raisedAt = "coerce" THEN NoValue
           ELSE raw

\* the loaded model is a function of the record: on the remembered record it
\* answers as it did before
AnswersAsBefore(o) ==
    (probe.set /\ probe.data.built /\ probe.data = data) => o = probe.outcome

ModelAnswers(o) ==
    /\ AnswersAsBefore(o)
    /\ PredictProba(o)

\* the caller receives the value; one invocation may be remembered
Return(remember) ==
    /\ pc = "returned"
    /\ pc' = "idle"
    /\ probe' = IF probe.set
                THEN IF probe.args = args THEN probe
                     ELSE [probe EXCEPT !.between = TRUE]
                ELSE IF remember
                THEN [set |-> TRUE, args |-> args, data |-> data, outcome |-> Outcome,
                      prob |-> prob, between |-> FALSE]
                ELSE probe
    /\ UNCHANGED <<cache, fileReads, loadsOK, loadFailures, runs, formShown, submitted,
                   args, model, runFileReads, data, raw, raisedAt, prob, errors,
                   predictCalls, invokerCalls, prob_percent, risk_level, color, icon,
                   rendered, calls>>

NextInvoker ==
    \/ \E a \in RawArgs : DirectCall(a)
    \/ BuildRecord
    \/ TagMethod
    \/ TagLocation
    \/ TagDescending
    \/ \E o \in SampleOutcomes : ModelAnswers(o)
    \/ Clamp
    \/ Except
    \/ \E remember \in BOOLEAN : Return(remember)

SpecInvoker == InitInvoker /\ [][NextInvoker]_vars

----------------------------------------------------------------------------
(* Properties *)

\* C1: whatever score predict_proba returns (below 0, above 1, NaN) and whether
\* or not it raises, the value predict_rebleeding returns lies in [0.0, 1.0].
C1_ReturnedProbabilityInUnitInterval ==
    prob # NoValue => (prob.kind = "num" /\ Zero <= prob.v /\ prob.v <= One)

\* a score above 1.0 came back from the model and 1.0 was returned
C1_Witness ==
    /\ pc = "returned"
    /\ raw.kind = "num" /\ raw.v > One
    /\ prob = Num(One)

\* C2: the band shown for a returned probability is Low exactly when p < 0.4,
\* Moderate exactly when 0.4 <= p < 0.7 and High exactly when p >= 0.7, so every
\* p of [0,1] has one band and the cut points 0.4 and 0.7 fall in the upper band.
C2_BandsPartitionUnitInterval ==
    pc \in {"render", "disclaimer", "done"} /\ submitted =>
        /\ prob.kind = "num"
        /\ risk_level \in {"Low Risk", "Moderate Risk", "High Risk"}
        /\ (risk_level = "Low Risk") <=> (prob.v < LowCut)
        /\ (risk_level = "Moderate Risk") <=> (LowCut <= prob.v /\ prob.v < HighCut)
        /\ (risk_level = "High Risk") <=> (HighCut <= prob.v)

\* the boundary 0.4 was classified, as Moderate
C2_Witness ==
    /\ pc = "render"
    /\ prob = Num(LowCut)
    /\ risk_level = "Moderate Risk"

\* C3: when a step of predict_rebleeding raises (a coercion, or predict_proba),
\* control stays inside the function, the error is reported with st.error and
\* exactly 0.5 is returned.
C3_ErrorGivesFallback ==
    /\ raisedAt # "none" => pc \in {"except", "returned", "idle"}
    /\ (raisedAt # "none" /\ pc \in {"returned", "idle"}) =>
           /\ prob = Num(Fallback)
           /\ "Error during prediction" \in errors

\* a coercion raised before the model was called, and 0.5 came back
C3_Witness ==
    /\ pc = "returned"
    /\ raisedAt = "coerce"
    /\ predictCalls = 0
    /\ prob = Num(Fallback)

\* C4: a run whose load_model failed shows the diagnostic and stops there: it
\* calls neither predict_rebleeding nor predict_proba and renders no result; and
\* whatever run calls predict_proba or renders a result holds the loaded model.
C4_NoInferenceAfterLoadFailure ==
    /\ "Model loading failed" \in errors =>
           /\ pc = "stopped"
           /\ model = "unset"
           /\ invokerCalls = 0 /\ predictCalls = 0
           /\ prob = NoValue
           /\ ~rendered.shown
    /\ (predictCalls > 0 \/ rendered.shown) => model = "model"

\* a run stopped at the failed load
C4_Witness ==
    /\ pc = "stopped"
    /\ "Model loading failed" \in errors
    /\ loadFailures > 0

C7_OneInferencePerSubmission ==
    /\ predictCalls <= 1 /\ invokerCalls <= 1
    /\ ~submitted => (predictCalls = 0 /\ invokerCalls = 0)
    /\ (submitted /\ pc = "done") => (predictCalls = 1 /\ invokerCalls = 1)
    /\ submitted => pc # "stopped"

\* a submitted run finished after its one call
C7_Witness ==
    /\ submitted
    /\ pc = "done"
    /\ predictCalls = 1
    /\ raisedAt = "none"

\* C8: with the loaded model answering as a function of the record, an
\* invocation with the arguments of a remembered invocation returns the
\* remembered probability, whatever was invoked in between, and the shared
\* handle is still the loaded model.
C8_SameInputSameProbability ==
    /\ model = "model"
    /\ (probe.set /\ probe.args = args /\ pc = "returned") => prob = probe.prob

\* the remembered arguments were invoked again after an invocation with others
C8_Witness ==
    /\ probe.set /\ probe.between
    /\ probe.args = args
    /\ pc = "returned"
    /\ raisedAt = "none"
    /\ prob = probe.prob

\* C9: the record handed to predict_proba from the form has Method in 1..5,
\* Location in 1..9, Descending in {0,1}, and all three columns are categorical
\* by the time the call is reached.
C9_CategoricalFieldsTaggedAndInDomain ==
    (pc = "proba" \/ predictCalls > 0) =>
        /\ data.built
        /\ data.val["Method"] \in 1..5
        /\ data.val["Location"] \in 1..9
        /\ data.val["Descending"] \in {0, 1}
        /\ \A c \in CategoricalColumns : data.dtype[c] = "category"

\* the model was called with the last option of each categorical widget
C9_Witness ==
    /\ predictCalls = 1
    /\ data.val["Method"] = 5
    /\ data.val["Location"] = 9
    /\ data.val["Descending"] = 1

\* C10: a submission whose inference failed goes on to the result section and ends
\* with a rendered result:
\* Moderate Risk, orange, 50.0%, the Moderate recommendation, next to the error
\* message; and every rendered result shows the band of the returned probability
\* with that band's color and recommendation.
C10_FallbackRenderedAsModerate ==
    /\ raisedAt # "none" => pc \in {"except", "returned", "render", "disclaimer", "done"}
    /\ (raisedAt # "none" /\ pc = "done") =>
           /\ rendered.shown
           /\ rendered.level = "Moderate Risk"
           /\ rendered.color = "orange"
           /\ rendered.percent = <<50, 0>>
           /\ rendered.recommendation =
                  "Consider close observation and evaluate need for intensified therapy."
           /\ "Error during prediction" \in errors
    /\ rendered.shown =>
           /\ prob.kind = "num"
           /\ \/ /\ prob.v < LowCut
                 /\ rendered.level = "Low Risk"
                 /\ rendered.color = "green"
                 /\ rendered.recommendation =
                        "Low short-term rebleeding risk. Routine monitoring may be sufficient."
              \/ /\ LowCut <= prob.v /\ prob.v < HighCut
                 /\ rendered.level = "Moderate Risk"
                 /\ rendered.color = "orange"
                 /\ rendered.recommendation =
                        "Consider close observation and evaluate need for intensified therapy."
              \/ /\ HighCut <= prob.v
                 /\ rendered.level = "High Risk"
                 /\ rendered.color = "red"
                 /\ rendered.recommendation =
                        "High-risk patient! Consider blood transfusion, ICU admission, or early repeat endoscopy."

\* an inference failure was rendered and the run finished
C10_Witness ==
    /\ raisedAt = "proba"
    /\ pc = "done"
    /\ rendered.shown
    /\ rendered.level = "Moderate Risk"

====
